---- MODULE Spec2Model ----
(***************************************************************************)
(* tinygp kernels: the kernel abstraction, its composition operators, the  *)
(* combinators, the leaf kernels and the batched call, src/tinygp/         *)
(* kernels.py.                                                             *)
(*                                                                         *)
(* Numbers are exact rationals <<"num", n, d>> (d > 0, lowest terms);      *)
(* coordinate vectors are <<"vec", <<q1, ..., qk>>>>.  The transcendental  *)
(* functions (exp, sqrt, sin, cos) are uninterpreted: jnp.exp(v) is the    *)
(* term <<"exp", v>>, and arithmetic on a term builds a term.  A raised    *)
(* exception is the value <<"err", kind>>; it propagates through every     *)
(* operation in Python's left-to-right evaluation order.                   *)
(***************************************************************************)
EXTENDS Integers, Sequences, FiniteSets, TLC

VARIABLES heap, pc, last, out, job

vars == <<heap, pc, last, out, job>>

(***************************************************************************)
(* Values                                                                  *)
(***************************************************************************)
Num(n) == <<"num", n, 1>>

Vec(s) == <<"vec", s>>

Err(kind) == <<"err", kind>>

None == <<"none">>

Str(s) == <<"str", s>>

Ref(i) == <<"ref", i>>

IsNum(v) == v[1] = "num"

IsVec(v) == v[1] = "vec"

IsErr(v) == v[1] = "err"

IsNone(v) == v[1] = "none"

IsRef(v) == v[1] = "ref"

IsCallable(v) == v[1] = "fn"

\* a value jnp can hold: a number or an array of numbers
IsNumeric(v) == IsNum(v) \/ IsVec(v)

Abs(n) == IF n < 0 THEN -n ELSE n

RECURSIVE Gcd(_, _)
Gcd(a, b) == IF b = 0 THEN a ELSE Gcd(b, a % b)

\* the rational n/d in lowest terms, d # 0
Rat(n, d) ==
  LET g == Gcd(Abs(n), Abs(d))
      s == IF d < 0 THEN -1 ELSE 1
  IN <<"num", (s * n) \div g, (s * d) \div g>>

QAdd(a, b) == Rat(a[2] * b[3] + b[2] * a[3], a[3] * b[3])

QSub(a, b) == Rat(a[2] * b[3] - b[2] * a[3], a[3] * b[3])

QMul(a, b) == Rat(a[2] * b[2], a[3] * b[3])

QDiv(a, b) == Rat(a[2] * b[3], a[3] * b[2])

QAbs(a) == <<"num", Abs(a[2]), a[3]>>

QNeg(a) == <<"num", -a[2], a[3]>>

RECURSIVE QPow(_, _)
QPow(a, k) == IF k = 0 THEN Num(1) ELSE QMul(a, QPow(a, k - 1))

(***************************************************************************)
(* Scalar arithmetic on results: exact on rationals, symbolic on terms.    *)
(***************************************************************************)
SAdd(a, b) ==
  IF IsErr(a) THEN a ELSE IF IsErr(b) THEN b
  ELSE IF IsNum(a) /\ IsNum(b) THEN QAdd(a, b) ELSE <<"add", a, b>>

SMul(a, b) ==
  IF IsErr(a) THEN a ELSE IF IsErr(b) THEN b
  ELSE IF IsNum(a) /\ IsNum(b) THEN QMul(a, b) ELSE <<"mul", a, b>>

SDiv(a, b) ==
  IF IsErr(a) THEN a ELSE IF IsErr(b) THEN b
  ELSE IF IsNum(a) /\ IsNum(b) /\ b[2] # 0 THEN QDiv(a, b) ELSE <<"div", a, b>>

SNeg(a) ==
  IF IsErr(a) THEN a ELSE IF IsNum(a) THEN QNeg(a) ELSE <<"neg", a>>

SSquare(a) == SMul(a, a)

\* a ** e: exact for an integer exponent, a term otherwise
SPow(a, e) ==
  IF IsErr(a) THEN a ELSE IF IsErr(e) THEN e
  ELSE IF IsNum(a) /\ IsNum(e) /\ e[3] = 1 /\ e[2] >= 0 THEN QPow(a, e[2])
  ELSE IF IsNum(a) /\ IsNum(e) /\ e[3] = 1 /\ a[2] # 0
       THEN QDiv(Num(1), QPow(a, -e[2]))
  ELSE <<"pow", a, e>>

Fn(name, a) == IF IsErr(a) THEN a ELSE <<name, a>>

(***************************************************************************)
(* Array arithmetic with numpy broadcasting: a scalar or a length-1 array  *)
(* stretches to the other operand's length; two arrays of different        *)
(* lengths, neither 1, do not broadcast.                                   *)
(***************************************************************************)
Size(a) == IF IsVec(a) THEN Len(a[2]) ELSE 1

Broadcastable(a, b) ==
  ~IsVec(a) \/ ~IsVec(b) \/ Len(a[2]) = Len(b[2]) \/ Len(a[2]) = 1 \/ Len(b[2]) = 1

BroadcastLen(a, b) == IF Size(a) >= Size(b) THEN Size(a) ELSE Size(b)

\* element i of a as stretched by broadcasting
At(a, i) == IF ~IsVec(a) THEN a ELSE IF Len(a[2]) = 1 THEN a[2][1] ELSE a[2][i]

ASub(a, b) ==
  IF IsErr(a) THEN a ELSE IF IsErr(b) THEN b
  ELSE IF ~IsVec(a) /\ ~IsVec(b) THEN QSub(a, b)
  ELSE IF ~Broadcastable(a, b) THEN Err("ShapeMismatch")
  ELSE Vec([i \in 1..BroadcastLen(a, b) |-> QSub(At(a, i), At(b, i))])

ADiv(a, b) ==
  IF IsErr(a) THEN a ELSE IF IsErr(b) THEN b
  ELSE IF ~IsVec(a) /\ ~IsVec(b) THEN QDiv(a, b)
  ELSE IF ~Broadcastable(a, b) THEN Err("ShapeMismatch")
  ELSE Vec([i \in 1..BroadcastLen(a, b) |-> QDiv(At(a, i), At(b, i))])

AMul(a, b) ==
  IF IsErr(a) THEN a ELSE IF IsErr(b) THEN b
  ELSE IF ~IsVec(a) /\ ~IsVec(b) THEN QMul(a, b)
  ELSE IF ~Broadcastable(a, b) THEN Err("ShapeMismatch")
  ELSE Vec([i \in 1..BroadcastLen(a, b) |-> QMul(At(a, i), At(b, i))])

AAbs(a) ==
  IF IsErr(a) THEN a
  ELSE IF IsVec(a) THEN Vec([i \in 1..Len(a[2]) |-> QAbs(a[2][i])])
  ELSE QAbs(a)

ASquare(a) ==
  IF IsErr(a) THEN a
  ELSE IF IsVec(a) THEN Vec([i \in 1..Len(a[2]) |-> QMul(a[2][i], a[2][i])])
  ELSE QMul(a, a)

RECURSIVE SumSeq(_)
SumSeq(s) == IF s = <<>> THEN Num(0) ELSE QAdd(s[1], SumSeq(Tail(s)))

\* jnp.sum: over all elements
ASum(a) == IF IsErr(a) THEN a ELSE IF IsVec(a) THEN SumSeq(a[2]) ELSE a

\* a @ b: the inner product of two 1-d arrays of one length; matmul takes no 0-d
\* operand and does not broadcast the contracted axis
MatMul(a, b) ==
  IF IsErr(a) THEN a ELSE IF IsErr(b) THEN b
  ELSE IF ~IsVec(a) \/ ~IsVec(b) THEN Err("TypeError")
  ELSE IF Len(a[2]) # Len(b[2]) THEN Err("ShapeMismatch")
  ELSE SumSeq([i \in 1..Len(a[2]) |-> QMul(a[2][i], b[2][i])])

\* X[axis]: axis an integer (0-based, negative from the end) or a sequence of them
InRange(i, n) == i >= -n /\ i < n

Pos(i, n) == IF i < 0 THEN i + n + 1 ELSE i + 1

Index(x, axis) ==
  IF IsErr(x) THEN x
  ELSE IF ~IsVec(x) THEN Err("IndexError")
  ELSE IF IsNum(axis)
       THEN IF InRange(axis[2], Len(x[2])) THEN x[2][Pos(axis[2], Len(x[2]))]
            ELSE Err("IndexError")
  ELSE IF \A i \in 1..Len(axis[2]) : InRange(axis[2][i], Len(x[2]))
       THEN Vec([i \in 1..Len(axis[2]) |-> x[2][Pos(axis[2][i], Len(x[2]))]])
  ELSE Err("IndexError")

\* jnp.asarray: a number or an array of numbers becomes an array; anything else is
\* not a valid JAX type
asarray(v) == IF IsNumeric(v) THEN v ELSE Err("TypeError")

(***************************************************************************)
(* Callables the user supplies (Custom functions, Transform metrics) and   *)
(* the two metrics of tinygp.metrics.  A callable is <<"fn", name, arg>>.  *)
(***************************************************************************)
Callable(name) == <<"fn", name, None>>

unit_metric(x) == x

diagonal_metric(ell) == <<"fn", "diagonal_metric", ell>>

ApplyDiagonal(ell, x) == ADiv(x, ell)

\* a user's metric: doubles every coordinate
Double(x) == AMul(Num(2), x)

\* a user's metric: coordinates in reverse order
Flip(x) == IF IsVec(x) THEN Vec([i \in 1..Len(x[2]) |-> x[2][Len(x[2]) + 1 - i]]) ELSE x

CallMetric(m, x) ==
  IF IsErr(x) THEN x
  ELSE IF m[2] = "unit_metric" THEN unit_metric(x)
  ELSE IF m[2] = "diagonal_metric" THEN ApplyDiagonal(m[3], x)
  ELSE IF m[2] = "double" THEN Double(x)
  ELSE Flip(x)

\* a user's pointwise function, not symmetric: sum(X1) - 2 * sum(X2)
Skew(X1, X2) == SAdd(ASum(X1), SMul(Num(-2), ASum(X2)))

\* a user's pointwise function: sum(|X1 - X2|)
Manhattan(X1, X2) == ASum(AAbs(ASub(X1, X2)))

CallFunction(f, X1, X2) == IF f[2] = "skew" THEN Skew(X1, X2) ELSE Manhattan(X1, X2)

(***************************************************************************)
(* Constructors: the attributes each __init__ stores, or the exception it  *)
(* raises.  A kernel is a record; a child is a reference into the heap.    *)
(***************************************************************************)
CustomInit(function) == [kind |-> "Custom", function |-> function]

TransformInit(kernel, metric) ==
  [kind |-> "Transform", kernel |-> kernel,
   metric |-> IF IsNone(metric) THEN Callable("unit_metric")
              ELSE IF IsCallable(metric) THEN metric
              ELSE diagonal_metric(metric)]

SubspaceInit(kernel, axis) == [kind |-> "Subspace", kernel |-> kernel, axis |-> axis]

SumInit(kernel1, kernel2) == [kind |-> "Sum", kernel1 |-> kernel1, kernel2 |-> kernel2]

ProductInit(kernel1, kernel2) ==
  [kind |-> "Product", kernel1 |-> kernel1, kernel2 |-> kernel2]

\* Constant.__init__ storing the value as given
ConstantInitUnchecked(value) == [kind |-> "Constant", value |-> value]

ConstantInit(value) ==
  IF IsErr(asarray(value)) THEN [kind |-> "raise", error |-> asarray(value)]
  ELSE [kind |-> "Constant", value |-> asarray(value)]

DotProductInit == [kind |-> "DotProduct"]

PolynomialInit(order, scale, sigma) ==
  [kind |-> "Polynomial", order |-> order, scale |-> scale, sigma2 |-> ASquare(sigma)]

ExpInit(scale) == [kind |-> "Exp", scale |-> scale]

ExpSquaredInit(scale) == [kind |-> "ExpSquared", scale |-> scale]

Matern32Init(scale) == [kind |-> "Matern32", scale |-> scale]

Matern52Init(scale) == [kind |-> "Matern52", scale |-> scale]

CosineInit(period) == [kind |-> "Cosine", period |-> period]

ExpSineSquaredInit(period, gamma) ==
  [kind |-> "ExpSineSquared", period |-> period, gamma |-> gamma]

RationalQuadraticInit(alpha) == [kind |-> "RationalQuadratic", alpha |-> alpha]

Raised(node) == node.kind = "raise"

(***************************************************************************)
(* evaluate, one per leaf class                                            *)
(***************************************************************************)
ConstantEvaluate(self, X1, X2) == self.value

DotProductEvaluate(self, X1, X2) == MatMul(X1, X2)

PolynomialEvaluate(self, X1, X2) ==
  SPow(SAdd(MatMul(ADiv(X1, self.scale), ADiv(X2, self.scale)), self.sigma2),
       self.order)

\* Exp.evaluate without the absolute value
ExpEvaluateNoAbs(self, X1, X2) ==
  Fn("exp", SNeg(ASum(ADiv(ASub(X1, X2), self.scale))))

ExpEvaluate(self, X1, X2) ==
  Fn("exp", SNeg(ASum(AAbs(ADiv(ASub(X1, X2), self.scale)))))

\* ExpSquared.evaluate without the division by the scale
ExpSquaredEvaluateUnscaled(self, X1, X2) ==
  Fn("exp", SMul(Rat(-1, 2), ASum(ASquare(ASub(X1, X2)))))

ExpSquaredEvaluate(self, X1, X2) ==
  Fn("exp", SMul(Rat(-1, 2), ASum(ASquare(ADiv(ASub(X1, X2), self.scale)))))

Matern32Evaluate(self, X1, X2) ==
  LET r == ASum(AAbs(ADiv(ASub(X1, X2), self.scale)))
      arg == SMul(<<"sqrt", Num(3)>>, r)
  IN SMul(SAdd(Num(1), arg), Fn("exp", SNeg(arg)))

Matern52Evaluate(self, X1, X2) ==
  LET r == ASum(AAbs(ADiv(ASub(X1, X2), self.scale)))
      arg == SMul(<<"sqrt", Num(5)>>, r)
  IN SMul(SAdd(SAdd(Num(1), arg), SDiv(SSquare(arg), Num(3))), Fn("exp", SNeg(arg)))

CosineEvaluate(self, X1, X2) ==
  LET r == ASum(AAbs(ADiv(ASub(X1, X2), self.period)))
  IN Fn("cos", SMul(SMul(Num(2), <<"pi">>), r))

ExpSineSquaredEvaluate(self, X1, X2) ==
  LET r == ASum(AAbs(ADiv(ASub(X1, X2), self.period)))
  IN Fn("exp", SMul(SNeg(self.gamma), SSquare(Fn("sin", SMul(<<"pi">>, r)))))

RationalQuadraticEvaluate(self, X1, X2) ==
  LET r2 == ASum(ASquare(ASub(X1, X2)))
  IN SPow(SAdd(Num(1), SDiv(SMul(Rat(1, 2), r2), self.alpha)), SNeg(self.alpha))

CustomEvaluate(self, X1, X2) == CallFunction(self.function, X1, X2)

LeafKinds ==
  {"Constant", "DotProduct", "Polynomial", "Exp", "ExpSquared", "Matern32",
   "Matern52", "Cosine", "ExpSineSquared", "RationalQuadratic"}

LeafEvaluate(self, X1, X2) ==
  CASE self.kind = "Constant" -> ConstantEvaluate(self, X1, X2)
    [] self.kind = "DotProduct" -> DotProductEvaluate(self, X1, X2)
    [] self.kind = "Polynomial" -> PolynomialEvaluate(self, X1, X2)
    [] self.kind = "Exp" -> ExpEvaluate(self, X1, X2)
    [] self.kind = "ExpSquared" -> ExpSquaredEvaluate(self, X1, X2)
    [] self.kind = "Matern32" -> Matern32Evaluate(self, X1, X2)
    [] self.kind = "Matern52" -> Matern52Evaluate(self, X1, X2)
    [] self.kind = "Cosine" -> CosineEvaluate(self, X1, X2)
    [] self.kind = "ExpSineSquared" -> ExpSineSquaredEvaluate(self, X1, X2)
    [] self.kind = "RationalQuadratic" -> RationalQuadraticEvaluate(self, X1, X2)
    [] self.kind = "Custom" -> CustomEvaluate(self, X1, X2)
    [] OTHER -> Err("NotImplementedError")

(***************************************************************************)
(* evaluate of the combinators, walking the tree held in heap h.  An       *)
(* argument expression that raises (X1[axis], metric(X1)) raises before    *)
(* the child is called.                                                    *)
(***************************************************************************)
RECURSIVE Evaluate(_, _, _, _)

\* Transform.evaluate with the metric applied to X1 only
TransformEvaluateOneSided(h, self, X1, X2) ==
  LET M1 == CallMetric(self.metric, X1)
  IN IF IsErr(M1) THEN M1 ELSE Evaluate(h, self.kernel, M1, X2)

TransformEvaluate(h, self, X1, X2) ==
  LET M1 == CallMetric(self.metric, X1)
      M2 == CallMetric(self.metric, X2)
  IN IF IsErr(M1) THEN M1 ELSE IF IsErr(M2) THEN M2
     ELSE Evaluate(h, self.kernel, M1, M2)

\* Subspace.evaluate testing the axis for truth ("if not self.axis")
SubspaceEvaluateFalsy(h, self, X1, X2) ==
  IF IsNone(self.axis) \/ self.axis = Num(0) THEN Evaluate(h, self.kernel, X1, X2)
  ELSE LET S1 == Index(X1, self.axis)
           S2 == Index(X2, self.axis)
       IN IF IsErr(S1) THEN S1 ELSE IF IsErr(S2) THEN S2
          ELSE Evaluate(h, self.kernel, S1, S2)

SubspaceEvaluate(h, self, X1, X2) ==
  IF IsNone(self.axis) THEN Evaluate(h, self.kernel, X1, X2)
  ELSE LET S1 == Index(X1, self.axis)
           S2 == Index(X2, self.axis)
       IN IF IsErr(S1) THEN S1 ELSE IF IsErr(S2) THEN S2
          ELSE Evaluate(h, self.kernel, S1, S2)

SumEvaluate(h, self, X1, X2) ==
  SAdd(Evaluate(h, self.kernel1, X1, X2), Evaluate(h, self.kernel2, X1, X2))

ProductEvaluate(h, self, X1, X2) ==
  SMul(Evaluate(h, self.kernel1, X1, X2), Evaluate(h, self.kernel2, X1, X2))

\* k.evaluate(X1, X2) for the kernel object at reference k
Evaluate(h, k, X1, X2) ==
  CASE h[k].kind = "Sum" -> SumEvaluate(h, h[k], X1, X2)
    [] h[k].kind = "Product" -> ProductEvaluate(h, h[k], X1, X2)
    [] h[k].kind = "Transform" -> TransformEvaluate(h, h[k], X1, X2)
    [] h[k].kind = "Subspace" -> SubspaceEvaluate(h, h[k], X1, X2)
    [] OTHER -> LeafEvaluate(h[k], X1, X2)

(***************************************************************************)
(* The composition operators.  Each returns the heap after the objects it  *)
(* constructed and the value returned (a reference) or the exception.      *)
(* isinstance(other, Kernel) holds of a reference: every object is a       *)
(* kernel.                                                                 *)
(***************************************************************************)
Alloc(h, node) ==
  IF Raised(node) THEN [heap |-> h, ret |-> node.error]
  ELSE [heap |-> Append(h, node), ret |-> Ref(Len(h) + 1)]

\* __add__ folding a number into a Constant operand in place
KernelAddInPlace(h, self, other) ==
  IF IsRef(other) THEN Alloc(h, SumInit(self, other[2]))
  ELSE IF h[self].kind = "Constant" /\ IsNum(other)
       THEN [heap |-> [h EXCEPT ![self].value = QAdd(@, other)], ret |-> Ref(self)]
  ELSE LET c == Alloc(h, ConstantInit(other))
       IN IF IsErr(c.ret) THEN c ELSE Alloc(c.heap, SumInit(self, c.ret[2]))

KernelAdd(h, self, other) ==
  IF IsRef(other) THEN Alloc(h, SumInit(self, other[2]))
  ELSE LET c == Alloc(h, ConstantInit(other))
       IN IF IsErr(c.ret) THEN c ELSE Alloc(c.heap, SumInit(self, c.ret[2]))

\* __radd__ with the operands in the order of __add__
KernelRAddSwapped(h, self, other) ==
  IF IsRef(other) THEN Alloc(h, SumInit(self, other[2]))
  ELSE LET c == Alloc(h, ConstantInit(other))
       IN IF IsErr(c.ret) THEN c ELSE Alloc(c.heap, SumInit(self, c.ret[2]))

KernelRAdd(h, self, other) ==
  IF IsRef(other) THEN Alloc(h, SumInit(other[2], self))
  ELSE LET c == Alloc(h, ConstantInit(other))
       IN IF IsErr(c.ret) THEN c ELSE Alloc(c.heap, SumInit(c.ret[2], self))

KernelMul(h, self, other) ==
  IF IsRef(other) THEN Alloc(h, ProductInit(self, other[2]))
  ELSE LET c == Alloc(h, ConstantInit(other))
       IN IF IsErr(c.ret) THEN c ELSE Alloc(c.heap, ProductInit(self, c.ret[2]))

KernelRMul(h, self, other) ==
  IF IsRef(other) THEN Alloc(h, ProductInit(other[2], self))
  ELSE LET c == Alloc(h, ConstantInit(other))
       IN IF IsErr(c.ret) THEN c ELSE Alloc(c.heap, ProductInit(c.ret[2], self))

(***************************************************************************)
(* Bounds and the inputs drawn                                             *)
(***************************************************************************)
\* combinator nodes (Sum, Product, Transform, Subspace) built by the composition
\* machine
MaxComposed == 1

\* kernels under test in the leaf machine
MaxLeaves == 1

\* rows of a point array in the batched call
MaxLen == 2

Coords == {-1, 2}

ScalarPoints == {Num(c) : c \in Coords}

VecPoints(d) == {Vec(s) : s \in [1..d -> ScalarPoints]}

\* the points of the composition machine: scalars and 2-vectors
Points ==
  ScalarPoints
  \cup {Vec(<<Num(-1), Num(2)>>), Vec(<<Num(2), Num(2)>>), Vec(<<Num(2), Num(-1)>>)}

\* the points of the leaf machine: scalars and vectors of 1 to 3 components
AllPoints ==
  ScalarPoints \cup VecPoints(1) \cup VecPoints(2)
  \cup {Vec(<<Num(-1), Num(2), Num(2)>>), Vec(<<Num(2), Num(-1), Num(2)>>)}

\* a scale or period: a scalar, or one entry per dimension
Scales ==
  {Num(1), Num(2), Vec(<<Num(2)>>), Vec(<<Num(1), Num(2)>>),
   Vec(<<Num(1), Num(2), Num(4)>>)}

\* every leaf constructor call of the leaf machine
AllLeaves ==
  {ConstantInit(v) : v \in {Num(2), Num(-3), Vec(<<Num(1), Num(2)>>), Str("abc")}}
  \cup {DotProductInit}
  \cup {PolynomialInit(Num(2), s, Num(1)) : s \in Scales}
  \cup {PolynomialInit(Num(3), s, Num(0)) : s \in Scales}
  \cup {ExpInit(s) : s \in Scales}
  \cup {ExpSquaredInit(s) : s \in Scales}
  \cup {Matern32Init(s) : s \in Scales}
  \cup {Matern52Init(s) : s \in Scales}
  \cup {CosineInit(s) : s \in Scales}
  \cup {ExpSineSquaredInit(s, Num(2)) : s \in Scales}
  \cup {RationalQuadraticInit(Num(a)) : a \in {1, 2}}

\* the leaf kernels the composition machine starts from
Pool == <<DotProductInit, Matern32Init(Num(1)), CustomInit(Callable("skew"))>>

CombinatorKinds == {"Sum", "Product", "Transform", "Subspace"}

\* the combinator nodes on heap h
Composed(h) == Cardinality({i \in DOMAIN h : h[i].kind \in CombinatorKinds})

\* the other operand of + and *: a kernel, a number, a string, a function
Operands(h) == {Ref(i) : i \in DOMAIN h} \cup {Num(3), Str("abc"), Callable("double")}

Metrics ==
  {None, Callable("double"), Callable("flip"), Num(2), Vec(<<Num(1), Num(2)>>)}

Axes == {None, Num(0), Num(1), <<"idx", <<1, 0>>>>}

(***************************************************************************)
(* A caller constructs kernels, composes them and evaluates them.  Each    *)
(* operation runs to completion (pc = "returned", its result in out) and   *)
(* the caller takes the result (Return).  The composition machine starts   *)
(* from the leaves of Pool; the leaf machine constructs its own.           *)
(***************************************************************************)
NoOp == [op |-> "none"]

NoJob == [state |-> "none"]

Init == heap = <<>> /\ pc = "idle" /\ last = NoOp /\ out = None /\ job = NoJob

Finish(r, op) ==
  /\ heap' = r.heap
  /\ out' = r.ret
  /\ last' = op
  /\ pc' = "returned"
  /\ UNCHANGED job

Construct(nodes, max) ==
  /\ pc = "idle"
  /\ \E node \in nodes :
    /\ Len(heap) < max
    /\ Finish(Alloc(heap, node), [op |-> "construct", node |-> node])

NewTransform ==
  /\ pc = "idle"
  /\ \E kernel \in DOMAIN heap, metric \in Metrics :
    /\ Composed(heap) < MaxComposed
    /\ Finish(Alloc(heap, TransformInit(kernel, metric)),
              [op |-> "Transform", kernel |-> kernel, metric |-> metric])

NewSubspace ==
  /\ pc = "idle"
  /\ \E kernel \in DOMAIN heap, axis \in Axes :
    /\ Composed(heap) < MaxComposed
    /\ Finish(Alloc(heap, SubspaceInit(kernel, axis)),
              [op |-> "Subspace", kernel |-> kernel, axis |-> axis])

Add ==
  /\ pc = "idle"
  /\ \E self \in DOMAIN heap, other \in Operands(heap) :
    /\ Composed(KernelAdd(heap, self, other).heap) <= MaxComposed
    /\ Finish(KernelAdd(heap, self, other),
              [op |-> "add", self |-> self, other |-> other])

RAdd ==
  /\ pc = "idle"
  /\ \E self \in DOMAIN heap, other \in Operands(heap) :
    /\ Composed(KernelRAdd(heap, self, other).heap) <= MaxComposed
    /\ Finish(KernelRAdd(heap, self, other),
              [op |-> "radd", self |-> self, other |-> other])

Mul ==
  /\ pc = "idle"
  /\ \E self \in DOMAIN heap, other \in Operands(heap) :
    /\ Composed(KernelMul(heap, self, other).heap) <= MaxComposed
    /\ Finish(KernelMul(heap, self, other),
              [op |-> "mul", self |-> self, other |-> other])

RMul ==
  /\ pc = "idle"
  /\ \E self \in DOMAIN heap, other \in Operands(heap) :
    /\ Composed(KernelRMul(heap, self, other).heap) <= MaxComposed
    /\ Finish(KernelRMul(heap, self, other),
              [op |-> "rmul", self |-> self, other |-> other])

EvaluateOp(points) ==
  /\ pc = "idle"
  /\ \E self \in DOMAIN heap, X1 \in points, X2 \in points :
    /\ Finish([heap |-> heap, ret |-> Evaluate(heap, self, X1, X2)],
              [op |-> "evaluate", self |-> self, X1 |-> X1, X2 |-> X2])

Return ==
  /\ pc = "returned"
  /\ pc' = "idle"
  /\ out' = None
  /\ last' = NoOp
  /\ UNCHANGED <<heap, job>>

Next ==
  \/ NewTransform
  \/ NewSubspace
  \/ Add
  \/ RAdd
  \/ Mul
  \/ RMul
  \/ EvaluateOp(Points)
  \/ Return

InitCompose == heap = Pool /\ pc = "idle" /\ last = NoOp /\ out = None /\ job = NoJob

Spec == InitCompose /\ [][Next]_vars

(***************************************************************************)
(* The leaf machine: one leaf kernel of any class and parameters,          *)
(* evaluated at any two points.                                            *)
(***************************************************************************)
NextLeaf ==
  \/ Construct(AllLeaves, MaxLeaves)
  \/ EvaluateOp(AllPoints)
  \/ Return

SpecLeaf == Init /\ [][NextLeaf]_vars
(***************************************************************************)
(* The batched call, Kernel.__call__.  A point array is [dim, rows]: dim   *)
(* is 0 for scalar points, else the number of components; every row has    *)
(* that shape.  jax.vmap traces evaluate once on the rows' shape (an       *)
(* exception there is raised by the call) and maps it over the leading     *)
(* axes; the mapped evaluations are the cells, run in any order.           *)
(***************************************************************************)
SeqsUpTo(S, n) == UNION {[1..k -> S] : k \in 0..n}

BatchPoints(d) ==
  IF d = 0 THEN ScalarPoints ELSE {Vec(<<Num(-1), Num(2)>>), Vec(<<Num(2), Num(-1)>>)}

Arrays == UNION {[dim : {d}, rows : SeqsUpTo(BatchPoints(d), MaxLen)] : d \in {0, 2}}

\* a point of the rows' shape, as the tracer stands for one
Tracer(X) == IF X.dim = 0 THEN Num(0) ELSE Vec([i \in 1..X.dim |-> Num(0)])

\* the diagonal taken from the full matrix
DiagCellsFull(X1) == (1..Len(X1.rows)) \X (1..Len(X1.rows))

\* in_axes=(0, 0) over (X1, X1): one cell per index
DiagCells(X1) == {<<i, i>> : i \in 1..Len(X1.rows)}

\* in_axes=(0, None) outside, (None, 0) inside: one cell per pair
FullCells(X1, X2) == (1..Len(X1.rows)) \X (1..Len(X2.rows))

\* an evaluation that reads a counter the evaluations share
CellValueShared(c) ==
  SAdd(Evaluate(heap, job.self, job.X1.rows[c[1]], job.X2.rows[c[2]]), Num(job.evals))

\* the mapped evaluation of cell c: row c[1] of X1 against row c[2] of X2
CellValue(c) == Evaluate(heap, job.self, job.X1.rows[c[1]], job.X2.rows[c[2]])

\* the two mapped axes exchanged: in_axes=(None, 0) outside, (0, None) inside
StackTransposed(j) ==
  IF j.diag
  THEN <<"array", <<Len(j.X1.rows)>>, [i \in 1..Len(j.X1.rows) |-> j.cells[<<i, i>>]]>>
  ELSE <<"array", <<Len(j.X2.rows), Len(j.X1.rows)>>,
         [k \in 1..Len(j.X2.rows) |-> [i \in 1..Len(j.X1.rows) |-> j.cells[<<i, k>>]]]>>

\* the stacked output: axis 0 from X1 and, for the full matrix, axis 1 from X2
Stack(j) ==
  IF j.diag
  THEN <<"array", <<Len(j.X1.rows)>>, [i \in 1..Len(j.X1.rows) |-> j.cells[<<i, i>>]]>>
  ELSE <<"array", <<Len(j.X1.rows), Len(j.X2.rows)>>,
         [i \in 1..Len(j.X1.rows) |-> [k \in 1..Len(j.X2.rows) |-> j.cells[<<i, k>>]]]>>

Pending(j) == {c \in DOMAIN j.cells : IsNone(j.cells[c])}

Start(self, X1, X2, diag, cells) ==
  /\ last' = [op |-> "call", self |-> self, X1 |-> X1, X2 |-> X2, diag |-> diag]
  /\ IF IsErr(Evaluate(heap, self, Tracer(X1), Tracer(X2)))
     THEN /\ out' = Evaluate(heap, self, Tracer(X1), Tracer(X2))
          /\ pc' = "returned"
          /\ UNCHANGED job
     ELSE /\ job' = [state |-> "running", self |-> self, X1 |-> X1, X2 |-> X2,
                     diag |-> diag, cells |-> [c \in cells |-> None], evals |-> 0]
          /\ pc' = "calling"
          /\ UNCHANGED out
  /\ UNCHANGED heap

\* K(X1)
CallDiag ==
  /\ pc = "idle"
  /\ \E self \in DOMAIN heap, X1 \in Arrays : Start(self, X1, X1, TRUE, DiagCells(X1))

\* K(X1, X2)
CallFull ==
  /\ pc = "idle"
  /\ \E self \in DOMAIN heap, X1 \in Arrays, X2 \in Arrays :
       Start(self, X1, X2, FALSE, FullCells(X1, X2))

EvalCell ==
  /\ pc = "calling"
  /\ \E c \in Pending(job) :
    /\ job' = [job EXCEPT !.cells[c] = CellValue(c), !.evals = @ + 1]
    /\ UNCHANGED <<heap, pc, last, out>>

CallReturn ==
  /\ pc = "calling"
  /\ Pending(job) = {}
  /\ out' = Stack(job)
  /\ pc' = "returned"
  /\ UNCHANGED <<heap, last, job>>

ReturnBatch ==
  /\ pc = "returned"
  /\ pc' = "idle"
  /\ out' = None
  /\ last' = NoOp
  /\ job' = NoJob
  /\ UNCHANGED heap

\* the kernels called: built by the constructors above
BatchHeap == <<DotProductInit, CustomInit(Callable("skew")), SumInit(1, 2)>>

InitBatch == heap = BatchHeap /\ pc = "idle" /\ last = NoOp /\ out = None /\ job = NoJob

NextBatch ==
  \/ CallDiag
  \/ CallFull
  \/ EvalCell
  \/ CallReturn
  \/ ReturnBatch

SpecBatch == InitBatch /\ [][NextBatch]_vars
(***************************************************************************)
(* Properties                                                              *)
(***************************************************************************)
Returned(op) == pc = "returned" /\ last.op = op

\* the array an index-order loop over the pointwise evaluations builds
Sequential(h, self, X1, X2, diag) ==
  IF diag
  THEN <<"array", <<Len(X1.rows)>>,
         [i \in 1..Len(X1.rows) |-> Evaluate(h, self, X1.rows[i], X1.rows[i])]>>
  ELSE <<"array", <<Len(X1.rows), Len(X2.rows)>>,
         [i \in 1..Len(X1.rows) |->
            [k \in 1..Len(X2.rows) |-> Evaluate(h, self, X1.rows[i], X2.rows[k])]]>>

\* C1: K(X1, X2) returns an array of shape (len(X1), len(X2)) whose entry [i, j] is
\* K.evaluate(X1[i], X2[j]), rows by X1 and columns by X2; it returns one whenever
\* the arrays are not empty and no pointwise evaluation raises.
C1_FullMatrix ==
  (Returned("call") /\ ~last.diag) =>
    LET n == Len(last.X1.rows)
        m == Len(last.X2.rows)
    IN /\ out[1] = "array" =>
            /\ out[2] = <<n, m>>
            /\ DOMAIN out[3] = 1..n
            /\ \A i \in 1..n :
                 /\ DOMAIN out[3][i] = 1..m
                 /\ \A k \in 1..m :
                      out[3][i][k] =
                        Evaluate(heap, last.self, last.X1.rows[i], last.X2.rows[k])
       /\ ( /\ n > 0
            /\ m > 0
            /\ \A i \in 1..n, k \in 1..m :
                 ~IsErr(Evaluate(heap, last.self, last.X1.rows[i], last.X2.rows[k])) )
          => out[1] = "array"

\* a 2 x 1 matrix of a kernel that is not symmetric has been returned
C1_Witness ==
  /\ Returned("call")
  /\ ~last.diag
  /\ out[1] = "array"
  /\ Len(last.X1.rows) = 2
  /\ Len(last.X2.rows) = 1
  /\ heap[last.self].kind = "Custom"

\* C2: K(X) returns an array of length len(X) whose i-th entry is
\* K.evaluate(X[i], X[i]), after exactly len(X) pointwise evaluations.
C2_Diagonal ==
  (Returned("call") /\ last.diag) =>
    LET n == Len(last.X1.rows)
    IN /\ out[1] = "array" =>
            /\ out[2] = <<n>>
            /\ DOMAIN out[3] = 1..n
            /\ \A i \in 1..n :
                 out[3][i] = Evaluate(heap, last.self, last.X1.rows[i], last.X1.rows[i])
            /\ job.evals = n
       /\ ( /\ n > 0
            /\ \A i \in 1..n :
                 ~IsErr(Evaluate(heap, last.self, last.X1.rows[i], last.X1.rows[i])) )
          => out[1] = "array"

\* the diagonal of two points has been returned
C2_Witness ==
  /\ Returned("call")
  /\ last.diag
  /\ out[1] = "array"
  /\ Len(last.X1.rows) = 2
  /\ last.X1.rows[1] # last.X1.rows[2]

\* C3: the pointwise evaluations of a batched call share no state: in whatever
\* order they run, each cell holds its own pointwise value, no kernel is written,
\* and the array returned is the one an index-order loop builds.
C3_OrderIndependent ==
  /\ job.state = "running" =>
       /\ heap = BatchHeap
       /\ \A c \in DOMAIN job.cells :
            \/ IsNone(job.cells[c])
            \/ job.cells[c] =
                 Evaluate(BatchHeap, job.self, job.X1.rows[c[1]], job.X2.rows[c[2]])
  /\ (Returned("call") /\ out[1] = "array") =>
       out = Sequential(BatchHeap, last.self, last.X1, last.X2, last.diag)

\* a later cell has been evaluated before an earlier one
C3_Witness ==
  /\ pc = "calling"
  /\ ~job.diag
  /\ <<1, 1>> \in DOMAIN job.cells
  /\ <<2, 1>> \in DOMAIN job.cells
  /\ IsNone(job.cells[<<1, 1>>])
  /\ ~IsNone(job.cells[<<2, 1>>])

CompositionOps == {"add", "radd", "mul", "rmul"}

\* the first and second child the operator written as op gives its node
FirstChild(op, self, other) == IF op \in {"add", "mul"} THEN self ELSE other

SecondChild(op, self, other) == IF op \in {"add", "mul"} THEN other ELSE self

Combine(op, a, b) == IF op \in {"add", "radd"} THEN SAdd(a, b) ELSE SMul(a, b)

\* C4: A + B is Sum(A, B), A * B is Product(A, B); a bare number c is lifted to
\* Constant(c) and the written left operand is the node's first child; the node's
\* evaluate is the pointwise + or * of the operands' values.
C4_Composition ==
  ( /\ pc = "returned"
    /\ last.op \in CompositionOps
    /\ IsRef(last.other) \/ IsNum(last.other) ) =>
    /\ IsRef(out)
    /\ out[2] = Len(heap)
    /\ heap[out[2]].kind = (IF last.op \in {"add", "radd"} THEN "Sum" ELSE "Product")
    /\ LET node == heap[out[2]]
           lifted == IF IsRef(last.other) THEN last.other[2] ELSE Len(heap) - 1
       IN /\ node.kernel1 = FirstChild(last.op, last.self, lifted)
          /\ node.kernel2 = SecondChild(last.op, last.self, lifted)
          /\ IsNum(last.other) => heap[lifted] = [kind |-> "Constant", value |-> last.other]
          /\ \A x \in Points, y \in Points :
               LET a == Evaluate(heap, last.self, x, y)
                   b == IF IsRef(last.other) THEN Evaluate(heap, last.other[2], x, y)
                        ELSE last.other
               IN Evaluate(heap, out[2], x, y) =
                    Combine(last.op, FirstChild(last.op, a, b), SecondChild(last.op, a, b))

\* c + A has been built from a number c and a kernel A that is not a Constant
C4_Witness ==
  /\ Returned("radd")
  /\ IsNum(last.other)
  /\ IsRef(out)
  /\ heap[last.self].kind = "Custom"

\* C5: every kernel keeps the attributes it was constructed with: a composition
\* adds objects and writes to none, and an evaluation writes to none.
C5_Frame == [][\A i \in DOMAIN heap : i \in DOMAIN heap' /\ heap'[i] = heap[i]]_vars

\* a composition of two existing kernels has returned a third
C5_Witness ==
  /\ Returned("add")
  /\ IsRef(last.other)
  /\ last.other # Ref(last.self)
  /\ IsRef(out)
  /\ heap[out[2]] = SumInit(last.self, last.other[2])

\* C6: + and * return a node when the other operand is a kernel or a number, and
\* raise at the operator, building nothing, when it is neither.
C6_OperandCheck ==
  [][last'.op \in CompositionOps =>
       IF IsRef(last'.other) \/ IsNumeric(last'.other)
       THEN /\ IsRef(out')
            /\ heap'[out'[2]].kind \in {"Sum", "Product"}
       ELSE /\ out' = Err("TypeError")
            /\ heap' = heap]_vars

\* a string operand has been refused by c * A
C6_Witness == Returned("rmul") /\ last.other = Str("abc") /\ IsErr(out)
\* the user's metric m applied to a point, by the function the user wrote
UserMetric(m, x) == IF m = Callable("double") THEN Double(x) ELSE Flip(x)

\* C7: Transform(K, metric) only changes the inputs K sees: none for metric None,
\* m(x), m(y) for a callable m, x / s, y / s for any other value s; so
\* Transform(Matern32(), s) is Matern32(s).  K's output is returned as it is.
C7_Transform ==
  Returned("Transform") =>
    /\ IsRef(out)
    /\ \A x \in Points, y \in Points :
         LET t == Evaluate(heap, out[2], x, y)
         IN /\ IsNone(last.metric) => t = Evaluate(heap, last.kernel, x, y)
            /\ IsCallable(last.metric) =>
                 t = Evaluate(heap, last.kernel,
                              UserMetric(last.metric, x), UserMetric(last.metric, y))
            /\ IsNumeric(last.metric) =>
                 /\ t = Evaluate(heap, last.kernel,
                                 ADiv(x, last.metric), ADiv(y, last.metric))
                 /\ heap[last.kernel] = Matern32Init(Num(1)) =>
                      t = Matern32Evaluate(Matern32Init(last.metric), x, y)

\* Transform(Matern32(), s) has been built with a per-dimension scale s
C7_Witness ==
  /\ Returned("Transform")
  /\ IsVec(last.metric)
  /\ heap[last.kernel] = Matern32Init(Num(1))

\* the points that agree with x on the components axis selects
Agree(x, y, axis) == IsVec(x) /\ IsVec(y) /\ Index(x, axis) = Index(y, axis)

\* C8: Subspace(K, axis) is K for axis None and K on x1[axis], x2[axis] for any
\* other axis, 0 included; the value then depends on the selected components only.
C8_Subspace ==
  Returned("Subspace") =>
    /\ IsRef(out)
    /\ \A x \in Points, y \in Points :
         LET t == Evaluate(heap, out[2], x, y)
         IN /\ IsNone(last.axis) => t = Evaluate(heap, last.kernel, x, y)
            /\ (~IsNone(last.axis) /\ IsVec(x) /\ IsVec(y)) =>
                 /\ t = Evaluate(heap, last.kernel,
                                 Index(x, last.axis), Index(y, last.axis))
                 /\ \A u \in Points, v \in Points :
                      (Agree(x, u, last.axis) /\ Agree(y, v, last.axis)) =>
                        Evaluate(heap, out[2], u, v) = t

\* Subspace(K, 0) has been built over a kernel that reads every component
C8_Witness ==
  /\ Returned("Subspace")
  /\ last.axis = Num(0)
  /\ heap[last.kernel].kind = "DotProduct"

\* C9: every built-in leaf kernel is symmetric: evaluate(a, b) = evaluate(b, a).
C9_Symmetry ==
  (Returned("evaluate") /\ heap[last.self].kind \in LeafKinds) =>
    out = Evaluate(heap, last.self, last.X2, last.X1)

\* a scaled leaf has been evaluated at two different vectors
C9_Witness ==
  /\ Returned("evaluate")
  /\ heap[last.self].kind = "Polynomial"
  /\ IsVec(heap[last.self].scale)
  /\ IsVec(last.X1)
  /\ Size(last.X1) = 2
  /\ Size(last.X2) = 2
  /\ last.X1 # last.X2
  /\ IsNum(out)

\* the scale or period of a leaf, None when the class has none
ScaleOf(node) ==
  IF node.kind \in {"Polynomial", "Exp", "ExpSquared", "Matern32", "Matern52"}
  THEN node.scale
  ELSE IF node.kind \in {"Cosine", "ExpSineSquared"} THEN node.period
  ELSE None

\* a per-dimension scale whose length is not the point's number of components
Mismatch(node, x) == IsVec(ScaleOf(node)) /\ Size(ScaleOf(node)) # Size(x)

\* C10 as stated: a scale vector whose length disagrees with the point's
\* dimensionality never fails at construction and always fails with ShapeMismatch
\* at evaluate.
C10_Original ==
  /\ (Returned("construct") /\ ~Raised(last.node)) => IsRef(out)
  /\ ( /\ Returned("evaluate")
       /\ Size(last.X1) = Size(last.X2)
       /\ IsVec(last.X1) = IsVec(last.X2)
       /\ Mismatch(heap[last.self], last.X1) ) => out = Err("ShapeMismatch")

\* C10 amended: construction with numeric parameters of any shape never fails;
\* evaluate at two points of one shape raises ShapeMismatch exactly when the scale
\* and the point are vectors of different lengths, neither of length 1; a scalar
\* point or a length-1 vector is broadcast.
C10_ShapeMismatch ==
  /\ (Returned("construct") /\ ~Raised(last.node)) => IsRef(out)
  /\ ( /\ Returned("evaluate")
       /\ Size(last.X1) = Size(last.X2)
       /\ IsVec(last.X1) = IsVec(last.X2) ) =>
       ( out = Err("ShapeMismatch") <=>
           /\ Mismatch(heap[last.self], last.X1)
           /\ IsVec(last.X1)
           /\ Size(last.X1) # 1
           /\ Size(ScaleOf(heap[last.self])) # 1 )

\* a 3-entry scale has met a 2-vector and evaluate has raised
C10_Witness ==
  /\ Returned("evaluate")
  /\ Size(last.X1) = 2
  /\ Size(last.X2) = 2
  /\ IsVec(ScaleOf(heap[last.self]))
  /\ Size(ScaleOf(heap[last.self])) = 3
  /\ out = Err("ShapeMismatch")
====
